---- MODULE Spec2Model ----
(***************************************************************************)
(* Water tracker (src/App.js): the intake counter, its goal latch, the     *)
(* mount-time load with day rollover, and the fire-and-forget saves to     *)
(* AsyncStorage.  Stored values are strings, modelled as sequences of      *)
(* one-character strings so that Number.toString and parseInt are real     *)
(* conversions.                                                            *)
(***************************************************************************)
EXTENDS Integers, Sequences, FiniteSets, TLC

\* ---------------------------------------------------------------- bounds
\* Last calendar day the clock can reach (days are 0..MaxDay).
MaxDay == 1
\* Most distinct values that setItem calls in flight can carry at once.
MaxInflight == 2
\* Clock readings per calendar day.
TicksPerDay == 2
\* Last calendar day the device clock can be set to.
MaxSetDay == 3
\* Most presses that are handled between two renders.
MaxBurst == 2
\* Most addGlass commands looked at once the total is at MAX_INTAKE.
MaxFurther == 2

\* ------------------------------------------------------ program constants
GLASS_SIZE == 250
DAILY_GOAL == 2000
MAX_INTAKE == DAILY_GOAL + 1000

\* ------------------------------------------------------------ conversions
\* AsyncStorage.getItem resolves to null for a key that was never written.
null == <<"null">>

\* A JavaScript number is modelled as a one-element tuple <<v>>, and NaN, the
\* result of parseInt when no digit can be read, as the empty tuple.
NaN == <<>>

isNaN(x) == x = NaN

Digits == <<"0", "1", "2", "3", "4", "5", "6", "7", "8", "9">>

IsDigit(c) == \E i \in 1..10 : Digits[i] = c

DigitValue(c) == (CHOOSE i \in 1..10 : Digits[i] = c) - 1

RECURSIVE NatToString(_)
NatToString(n) ==
    IF n < 10 THEN <<Digits[n + 1]>>
    ELSE NatToString(n \div 10) \o <<Digits[(n % 10) + 1]>>

\* Number.prototype.toString() of an integer.
toString(n) == IF n < 0 THEN <<"-">> \o NatToString(0 - n) ELSE NatToString(n)

RECURSIVE SkipWhitespace(_)
SkipWhitespace(s) ==
    IF s # <<>> /\ Head(s) = " " THEN SkipWhitespace(Tail(s)) ELSE s

\* The value of the longest prefix of digits of s, acc being the value read so
\* far; NaN when s starts with no digit and nothing has been read.
RECURSIVE ParseDigits(_, _, _)
ParseDigits(s, acc, seen) ==
    IF s # <<>> /\ IsDigit(Head(s))
    THEN ParseDigits(Tail(s), acc * 10 + DigitValue(Head(s)), TRUE)
    ELSE IF seen THEN <<acc>> ELSE NaN

\* parseInt(s, 10): leading whitespace skipped, an optional sign, then the
\* longest run of digits; whatever follows the digits is ignored.
parseInt(s) ==
    LET t == SkipWhitespace(s)
        neg == t # <<>> /\ Head(t) = "-"
        u == IF t # <<>> /\ Head(t) \in {"-", "+"} THEN Tail(t) ELSE t
        v == ParseDigits(u, 0, FALSE)
    IN  IF isNaN(v) THEN NaN ELSE IF neg THEN <<0 - v[1]>> ELSE v

\* The local calendar day of clock reading t, and the reading at which day d
\* begins.
DayOf(t) == t \div TicksPerDay
Midnight(d) == d * TicksPerDay

\* A date string that keeps the time of day.
toTimeString(t) == <<"day">> \o NatToString(t)

\* new Date().toDateString(): the time of day is dropped, which leaves one
\* identifier per local calendar day.
toDateString(t) == <<"day">> \o NatToString(DayOf(t))

Min(a, b) == IF a <= b THEN a ELSE b
Max(a, b) == IF a >= b THEN a ELSE b

\* ------------------------------------------------------------------ state
VARIABLES
    now,            \* the device clock, in ticks
    store,          \* AsyncStorage: [lastReset, intake], each a string or null
    inflight,       \* the strings s of the setItem(INTAKE, s) calls not yet settled
    pc,             \* where the app is: "off", or loadData's await, or "done"
    today,          \* loadData's const today (null outside loadData)
    savedDate,      \* loadData's const savedDate (null outside loadData)
    intake,         \* useState(0)
    isLoading,      \* useState(true)
    goalReached,    \* useState(false)
    isInitialized,  \* useRef(false).current
    celebrated,     \* celebrate() was called by the last step
    loadResult,     \* how loadData ended, when the last step ended it; else "none"
    recording,      \* whether this specification keeps the histories below
    celebratedToday,\* history: celebrate() was called on the clock's current day
    pressedToday,   \* history: the total was last changed by a press made today
    savedToday,     \* history: store.intake is the save of such a total
    saveFailed      \* history: a setItem call of this session was rejected

vars == <<now, store, inflight, pc, today, savedDate, intake, isLoading,
          goalReached, isInitialized, celebrated, loadResult, recording,
          celebratedToday, pressedToday, savedToday, saveFailed>>

mem == <<intake, isLoading, goalReached, isInitialized>>
locals == <<today, savedDate>>

\* The intake strings a device's store may hold when the app starts: never
\* written, or written by this app,
WrittenIntakes ==
    { null, <<"0">>, <<"1", "5", "0", "0">>, <<"2", "0", "0", "0">> }

\* and contents this app would not have written.
ForeignIntakes ==
    { <<"5", "0", "0", "0">>, <<"-", "2", "5", "0">>, <<"a", "b", "c">>,
      <<"2", "5", "0", "m", "l">> }

InitialDates == {null} \cup {toDateString(Midnight(d)) : d \in 0..MaxDay}

\* The device before the app is launched, its store holding one of intakes.
Device(intakes) ==
    /\ now = 0
    /\ store \in [lastReset : InitialDates, intake : intakes]
    /\ inflight = {}
    /\ pc = "off"
    /\ today = null
    /\ savedDate = null
    /\ intake = 0
    /\ isLoading = TRUE
    /\ goalReached = FALSE
    /\ isInitialized = FALSE
    /\ celebrated = FALSE
    /\ loadResult = "none"
    /\ celebratedToday = FALSE
    /\ pressedToday = FALSE
    /\ savedToday = FALSE
    /\ saveFailed = FALSE

Init == Device(WrittenIntakes \cup ForeignIntakes) /\ recording = FALSE

\* ---------------------------------------------------------------- effects
\* The save effect without its isInitialized guard.
SaveEffectUnguarded(initialized, value, pending) ==
    pending \cup {toString(value)}

\* The save effect, run by a render in which intake changed: it returns the
\* setItem calls in flight after it.  The calls settle in any order and each
\* carries a whole value, so calls that carry the same string are kept once.
SaveEffect(initialized, value, pending) ==
    IF ~initialized THEN pending ELSE pending \cup {toString(value)}

\* The goal effect as a level test: it fires whenever the total is at the goal.
GoalEffectLevel(initialized, value, reached) ==
    initialized /\ value >= DAILY_GOAL

\* The goal effect with > for >=: it fires only above the goal.
GoalEffectAboveGoal(initialized, value, reached) ==
    initialized /\ value > DAILY_GOAL /\ ~reached

\* The goal effect without its isInitialized guard.
GoalEffectUnguarded(initialized, value, reached) ==
    value >= DAILY_GOAL /\ ~reached

\* The goal effect, run by a render in which intake or goalReached changed:
\* TRUE when it calls setGoalReached(true) and celebrate().
GoalEffect(initialized, value, reached) ==
    initialized /\ value >= DAILY_GOAL /\ ~reached

\* An addGlass updater that clamps at the goal instead of MAX_INTAKE.
addGlassToGoal(prev) == Min(prev + GLASS_SIZE, DAILY_GOAL)

\* An addGlass updater that clamps one glass short of MAX_INTAKE.
addGlassOneShort(prev) == Min(prev + GLASS_SIZE, MAX_INTAKE - GLASS_SIZE)

\* A removeGlass updater with its floor one glass too low.
removeGlassBelowZero(prev) == Max(prev - GLASS_SIZE, 0 - GLASS_SIZE)

\* The state updaters of addGlass and removeGlass.
addGlass(prev) == Min(prev + GLASS_SIZE, MAX_INTAKE)

removeGlass(prev) == Max(prev - GLASS_SIZE, 0)

\* The updater a command passes to setIntake.
Updater(command, prev) ==
    IF command = "addGlass" THEN addGlass(prev) ELSE removeGlass(prev)

\* Commands that set the total from the rendered value instead of passing an
\* updater: the last one overwrites the others.
UpdatersLastWins(queue, prev) ==
    IF queue = <<>> THEN prev ELSE Updater(queue[Len(queue)], prev)

\* The updaters queued since the last render are applied at the next render
\* in the order they were queued, each to the result of the one before.
RECURSIVE Updaters(_, _)
Updaters(queue, prev) ==
    IF queue = <<>> THEN prev
    ELSE Updaters(Tail(queue), Updater(Head(queue), prev))

\* A multiSet that has written the date and not yet the intake.
multiSetOneKey(s, date, value) == [s EXCEPT !.lastReset = date]

\* AsyncStorage.multiSet of the two keys: one batch.
multiSet(s, date, value) == [lastReset |-> date, intake |-> value]

\* A date comparison that takes a missing date for the same day.
IsNewDayIgnoringAbsent(saved, current) == saved # null /\ saved # current

\* The date comparison of loadData.
IsNewDay(saved, current) == saved # current

\* celebrate() called or not by a step, and the history of it.
Celebrate(fired) ==
    /\ celebrated' = fired
    /\ celebratedToday' = (celebratedToday \/ (recording /\ fired))

\* ------------------------------------------------------------ the session
\* The app is launched: the component mounts with its default state, the
\* save and goal effects run and return (isInitialized is false), and
\* loadData runs up to its first await.
Mount ==
    /\ pc = "off"
    /\ pc' = "getDate"
    /\ today' = toDateString(now)
    /\ savedDate' = null
    /\ intake' = 0
    /\ isLoading' = TRUE
    /\ goalReached' = GoalEffect(FALSE, 0, FALSE)
    /\ isInitialized' = FALSE
    /\ inflight' = SaveEffect(FALSE, 0, {})
    /\ Celebrate(GoalEffect(FALSE, 0, FALSE))
    /\ loadResult' = "none"
    /\ pressedToday' = FALSE
    /\ saveFailed' = FALSE
    /\ UNCHANGED <<now, store, recording, savedToday>>

\* loadData's finally block, and loadData returns.
Finally(result) ==
    /\ isLoading' = FALSE
    /\ isInitialized' = TRUE
    /\ pc' = "done"
    /\ today' = null
    /\ savedDate' = null
    /\ loadResult' = result

\* A catch block with no finally block after it: the loading screen stays.
CatchNoFinally ==
    /\ pc' = "done"
    /\ today' = null
    /\ savedDate' = null
    /\ loadResult' = "failed"
    /\ Celebrate(FALSE)
    /\ UNCHANGED <<now, store, inflight, mem, recording, saveFailed,
                   pressedToday, savedToday>>

\* loadData's catch block (it only logs) followed by finally: the state keeps
\* its defaults.
Catch ==
    /\ Finally("failed")
    /\ Celebrate(FALSE)
    /\ UNCHANGED <<now, store, inflight, intake, goalReached, recording,
                   saveFailed, pressedToday, savedToday>>

\* getItem(LAST_RESET) resolves: a new day goes on to multiSet, the same day
\* to getItem(INTAKE).
GetDateResolve ==
    /\ pc = "getDate"
    /\ savedDate' = store.lastReset
    /\ pc' = IF IsNewDay(store.lastReset, today) THEN "multiSet" ELSE "getIntake"
    /\ Celebrate(FALSE)
    /\ UNCHANGED <<now, store, inflight, today, mem, loadResult, recording, saveFailed,
                   pressedToday, savedToday>>

GetDateReject ==
    /\ pc = "getDate"
    /\ Catch

\* What setIntake(v); setGoalReached(g); setIsLoading(false);
\* isInitialized.current = true leave behind.  Batched, the three updates are
\* rendered once, after isInitialized is set; unbatched, each is rendered as
\* it is made and the effects of those renders see isInitialized false.
LoadOutcome(v, g, batched) ==
    IF batched
    THEN LET f == (v # intake \/ g # goalReached) /\ GoalEffect(TRUE, v, g)
         IN  [intake |-> v,
              goalReached |-> g \/ f,
              inflight |-> IF v # intake THEN SaveEffect(TRUE, v, inflight)
                           ELSE inflight,
              celebrated |-> f]
    ELSE LET f1 == v # intake /\ GoalEffect(isInitialized, v, goalReached)
             g1 == goalReached \/ f1
             f2 == g # g1 /\ GoalEffect(isInitialized, v, g)
         IN  [intake |-> v,
              goalReached |-> g \/ f2,
              inflight |-> IF v # intake
                           THEN SaveEffect(isInitialized, v, inflight)
                           ELSE inflight,
              celebrated |-> f1 \/ f2]

ApplyLoad(out, result) ==
    /\ intake' = out.intake
    /\ goalReached' = out.goalReached
    /\ inflight' = out.inflight
    /\ Celebrate(out.celebrated)
    /\ Finally(result)

\* multiSet resolves: both keys are written, then the state is reset.
MultiSetResolve ==
    /\ pc = "multiSet"
    /\ store' = multiSet(store, today, <<"0">>)
    /\ \E batched \in BOOLEAN : ApplyLoad(LoadOutcome(0, FALSE, batched), "reset")
    /\ savedToday' = FALSE
    /\ UNCHANGED <<now, recording, saveFailed, pressedToday>>

MultiSetReject ==
    /\ pc = "multiSet"
    /\ Catch

\* getItem(INTAKE) resolves: a stored number is restored, anything else
\* leaves the defaults.
GetIntakeResolve ==
    /\ pc = "getIntake"
    /\ LET intakeValue == IF store.intake = null THEN NaN ELSE parseInt(store.intake)
       IN  IF store.intake # null /\ ~isNaN(intakeValue)
           THEN \E batched \in BOOLEAN :
                    ApplyLoad(LoadOutcome(intakeValue[1],
                                          intakeValue[1] >= DAILY_GOAL, batched),
                              "restored")
           ELSE /\ Finally("defaults")
                /\ Celebrate(FALSE)
                /\ UNCHANGED <<inflight, intake, goalReached>>
    /\ UNCHANGED <<now, store, recording, saveFailed, pressedToday, savedToday>>

GetIntakeReject ==
    /\ pc = "getIntake"
    /\ Catch

\* A press of a button, which the loading screen does not show: the updater is
\* applied and, when the value changed, the render runs the save effect and
\* the goal effect.
Press(next) ==
    /\ ~isLoading
    /\ next # intake =>
           Cardinality(SaveEffect(isInitialized, next, inflight)) <= MaxInflight
    /\ LET f == next # intake /\ GoalEffect(isInitialized, next, goalReached)
       IN  /\ intake' = next
           /\ inflight' = IF next # intake
                          THEN SaveEffect(isInitialized, next, inflight)
                          ELSE inflight
           /\ goalReached' = (goalReached \/ f)
           /\ Celebrate(f)
    /\ loadResult' = "none"
    /\ pressedToday' = (recording /\ (pressedToday \/ next # intake))
    /\ UNCHANGED <<now, store, pc, locals, isLoading, isInitialized, recording, saveFailed,
                   savedToday>>

AddGlass == Press(addGlass(intake))

\* The Remove button is disabled while intake is 0.
RemoveGlass ==
    /\ intake # 0
    /\ Press(removeGlass(intake))

\* The presses that can be handled between two renders.
Queues == UNION {[1..k -> {"addGlass", "removeGlass"}] : k \in 1..MaxBurst}

\* The commands of queue are handled before the next render.  Remove can be
\* pressed only if the last render showed it enabled.
Commands(queue) ==
    /\ \A i \in 1..Len(queue) : queue[i] = "removeGlass" => intake # 0
    /\ Press(Updaters(queue, intake))

\* Several presses are handled before the next render.
Burst == \E queue \in Queues : Len(queue) > 1 /\ Commands(queue)

\* ------------------------------------------------------------ environment
\* A setItem in flight is applied to the store; the calls settle in any order.
SetItemResolve ==
    \E s \in inflight :
        /\ store' = [store EXCEPT !.intake = s]
        /\ inflight' = inflight \ {s}
        /\ Celebrate(FALSE)
        /\ loadResult' = "none"
        /\ savedToday' = (pressedToday /\ s = toString(intake))
        /\ UNCHANGED <<now, pc, locals, mem, recording, saveFailed, pressedToday>>

\* A setItem in flight fails: saveData's catch only logs it.
SetItemReject ==
    \E s \in inflight :
        /\ inflight' = inflight \ {s}
        /\ Celebrate(FALSE)
        /\ loadResult' = "none"
        /\ saveFailed' = recording
        /\ UNCHANGED <<now, store, pc, locals, mem, recording, pressedToday,
                       savedToday>>

\* Local midnight passes, once or several times.
AdvanceDay ==
    /\ \E d \in (DayOf(now) + 1)..MaxDay : now' = Midnight(d)
    /\ celebrated' = FALSE
    /\ celebratedToday' = FALSE
    /\ pressedToday' = FALSE
    /\ savedToday' = FALSE
    /\ loadResult' = "none"
    /\ UNCHANGED <<store, inflight, pc, locals, mem, recording, saveFailed>>

\* The device clock is set, backward or forward, by any amount.
SetClock ==
    /\ \E t \in 0..(Midnight(MaxSetDay + 1) - 1) : t # now /\ now' = t
    /\ celebrated' = FALSE
    /\ celebratedToday' = (celebratedToday /\ DayOf(now') = DayOf(now))
    /\ pressedToday' = (pressedToday /\ DayOf(now') = DayOf(now))
    /\ savedToday' = (savedToday /\ DayOf(now') = DayOf(now))
    /\ loadResult' = "none"
    /\ UNCHANGED <<store, inflight, pc, locals, mem, recording, saveFailed>>

\* The app is closed: the in-memory state and the calls in flight are gone,
\* the store stays.
Kill ==
    /\ pc # "off"
    /\ pc' = "off"
    /\ inflight' = {}
    /\ today' = null
    /\ savedDate' = null
    /\ intake' = 0
    /\ isLoading' = TRUE
    /\ goalReached' = FALSE
    /\ isInitialized' = FALSE
    /\ Celebrate(FALSE)
    /\ loadResult' = "none"
    /\ pressedToday' = FALSE
    /\ saveFailed' = FALSE
    /\ UNCHANGED <<now, store, recording, savedToday>>

\* --------------------------------------------------------- specifications
StorageUp ==
    \/ Mount
    \/ GetDateResolve
    \/ MultiSetResolve
    \/ GetIntakeResolve
    \/ AddGlass
    \/ RemoveGlass
    \/ SetItemResolve
    \/ AdvanceDay
    \/ Kill

Next ==
    \/ StorageUp
    \/ GetDateReject
    \/ MultiSetReject
    \/ GetIntakeReject
    \/ SetItemReject

\* Every behaviour of the app in which each press is rendered before the
\* next is handled, storage failures included.
Spec == Init /\ [][Next]_vars

\* The behaviours in which the store starts with what the app wrote and no
\* storage call fails, with the histories kept.
InitRecording == Device(WrittenIntakes) /\ recording = TRUE

SpecStorageUp == InitRecording /\ [][StorageUp]_vars

\* The same with setItem calls that may fail.
SavesMayFail == StorageUp \/ SetItemReject

SpecSavesMayFail == InitRecording /\ [][SavesMayFail]_vars

\* The behaviours in which presses may also be handled several at a time,
\* before the next render; the store starts with what the app wrote and no
\* storage call fails.
InitBursts == Device(WrittenIntakes) /\ recording = FALSE

WithBursts == StorageUp \/ Burst

SpecBursts == InitBursts /\ [][WithBursts]_vars

\* Starting and closing the app, with no button pressed, on a device whose
\* clock can be set.
Startup ==
    \/ Mount
    \/ GetDateResolve
    \/ GetDateReject
    \/ MultiSetResolve
    \/ MultiSetReject
    \/ GetIntakeResolve
    \/ GetIntakeReject
    \/ SetItemResolve
    \/ SetItemReject
    \/ Kill
    \/ SetClock

SpecStartup == Init /\ [][Startup]_vars

\* ----------------------------------------------------------------- claims
Loading == pc \in {"getDate", "multiSet", "getIntake"}

\* C1: in every reachable state the in-memory total satisfies
\* 0 <= totalMl <= MAX_INTAKE, whatever the store held at startup.
C1_TotalWithinBounds == 0 <= intake /\ intake <= MAX_INTAKE

\* C2: when a load completes and the stored lastResetDate differs from the
\* day identifier the load computed (or is absent), the total is 0 and the
\* latch is false, whatever intake string the store held.
C2_RolloverLoadResets ==
    [][(Loading /\ pc' = "done" /\ store.lastReset # today)
           => (intake' = 0 /\ ~goalReached')]_vars

C2_Witness ==
    /\ loadResult = "reset"
    /\ store = [lastReset |-> toDateString(now), intake |-> <<"0">>]
    /\ intake = 0
    /\ ~goalReached

\* C3: whenever the calendar day changes while a session is running, the total
\* is reset to 0 and the latch to false.
C3_MidnightResetsSession ==
    [][(pc = "done" /\ now' # now) => (intake' = 0 /\ ~goalReached')]_vars

\* C4: once goalReached is true in a session, no step of that session (no
\* removeGlass, no addGlass back over the goal) calls celebrate() again.
C4_LatchedNoRefire == [][goalReached => ~celebrated']_vars

C4_Witness ==
    /\ pc = "done"
    /\ goalReached
    /\ intake < DAILY_GOAL
    /\ loadResult = "none"

\* C5: the celebration signal is emitted at most once per calendar day: no
\* step calls celebrate() on a day on which it was already called.
C5_OncePerDay == [][celebrated' => ~celebratedToday]_vars

\* C6: a same-day load that restores a stored total at or above the goal sets
\* the latch without calling celebrate(), batched or not, and no later step of
\* the session calls it.
C6_RestartNoRefire ==
    /\ [][(pc = "getIntake" /\ loadResult' = "restored" /\ intake' >= DAILY_GOAL)
              => (goalReached' /\ ~celebrated')]_vars
    /\ [][(pc = "done" /\ goalReached) => ~celebrated']_vars

C6_Witness ==
    /\ loadResult = "restored"
    /\ intake >= DAILY_GOAL
    /\ goalReached
    /\ ~celebrated

\* C7: once every save in flight has landed, the stored intake is the decimal
\* string of the in-memory total.
C7_StoreConverges ==
    [][(pc = "done" /\ pc' = "done" /\ inflight # {} /\ inflight' = {})
           => store'.intake = toString(intake')]_vars

\* C8: when the store holds the save of a total in 0..MAX_INTAKE entered
\* today, a load on the same day restores exactly that total.
C8_RoundTripSameDay ==
    [][(Loading /\ pc' = "done" /\ savedToday)
           => \A n \in 0..MAX_INTAKE :
                  store.intake = toString(n) => intake' = n]_vars

\* C9: until the load has finished no setItem is in flight, the buttons are
\* hidden and the total is the default 0; and the stored intake changes during
\* a load only by the rollover batch.
C9_NothingBeforeLoadEnds ==
    /\ [](pc # "done" => (inflight = {} /\ isLoading /\ ~isInitialized /\ intake = 0))
    /\ [][(pc # "done" /\ store'.intake # store.intake) => pc = "multiSet"]_vars

C9_Witness ==
    /\ pc = "getIntake"
    /\ store.intake = <<"1", "5", "0", "0">>
    /\ intake = 0
    /\ inflight = {}

\* C10: the store's date changes only in the rollover batch, which sets both
\* keys at once to today's date and "0"; and a load changes the store in no
\* other way.
C10_RolloverIsOneBatch ==
    [][(store'.lastReset # store.lastReset \/ (pc # "done" /\ store' # store))
           => (pc = "multiSet"
               /\ store' = [lastReset |-> today, intake |-> <<"0">>])]_vars

C10_Witness ==
    /\ loadResult = "reset"
    /\ store = [lastReset |-> toDateString(now), intake |-> <<"0">>]
    /\ now > 0

\* C11: addGlass is a saturating add: a step that handles one addGlass from a
\* total in 0..MAX_INTAKE leaves the total at total + GLASS_SIZE, or at
\* MAX_INTAKE when that would be more; at MAX_INTAKE it changes nothing and
\* the app keeps running.
C11_AddGlassSaturates ==
    [][(0 <= intake /\ intake <= MAX_INTAKE /\ AddGlass)
           => /\ intake + GLASS_SIZE <= MAX_INTAKE => intake' = intake + GLASS_SIZE
              /\ intake + GLASS_SIZE > MAX_INTAKE => intake' = MAX_INTAKE
              /\ intake = MAX_INTAKE
                     => UNCHANGED <<intake, goalReached, inflight, store>>
              /\ pc' = "done"]_vars

C11_Witness ==
    /\ pc = "done"
    /\ intake = MAX_INTAKE
    /\ toString(MAX_INTAKE) \in inflight

\* C12: removeGlass is a saturating subtract: a step that handles one
\* removeGlass from a total in 0..MAX_INTAKE leaves the total at
\* total - GLASS_SIZE, or at 0 when that would be less; a removeGlass handled
\* when the total has already come down to 0 leaves it at 0; and the app keeps
\* running.
C12_RemoveGlassSaturates ==
    /\ [][(0 <= intake /\ intake <= MAX_INTAKE /\ RemoveGlass)
              => /\ intake >= GLASS_SIZE => intake' = intake - GLASS_SIZE
                 /\ intake < GLASS_SIZE => intake' = 0
                 /\ pc' = "done"]_vars
    /\ [][(intake = GLASS_SIZE /\ Commands(<<"removeGlass", "removeGlass">>))
              => (intake' = 0 /\ pc' = "done")]_vars

C12_Witness ==
    /\ pc = "done"
    /\ intake = 0
    /\ toString(0) \in inflight

\* C13: Scenario A: from a fresh day (total 0, latch false) eight addGlass
\* commands take the total to 2000 in steps of 250; the k-th of them, for k
\* in 1..7, leaves the latch false and does not call celebrate(); the eighth
\* sets the latch and calls celebrate().
C13_ScenarioA ==
    [][\A k \in 1..8 :
           (~goalReached /\ intake = (k - 1) * GLASS_SIZE /\ AddGlass)
               => /\ intake' = k * GLASS_SIZE
                  /\ goalReached' = (k = 8)
                  /\ celebrated' = (k = 8)
                  /\ k = 8 => intake' = DAILY_GOAL]_vars

C13_Witness ==
    /\ pc = "done"
    /\ intake = DAILY_GOAL
    /\ goalReached
    /\ celebrated
    /\ toString(DAILY_GOAL) \in inflight

\* n addGlass commands in a row.
Glasses(n) == [i \in 1..n |-> "addGlass"]

\* C14 as stated: Scenario B: from total 2000 one addGlass gives 2250, two
\* more (three in all) bring the total to MAX_INTAKE = 3000, and every
\* further addGlass leaves it there.
C14_ScenarioB ==
    (pc = "done" /\ intake = DAILY_GOAL)
        => /\ Updaters(Glasses(1), intake) = DAILY_GOAL + GLASS_SIZE
           /\ \A n \in 3..(3 + MaxFurther) :
                  Updaters(Glasses(n), intake) = MAX_INTAKE

\* C14 amended: Scenario B: from total 2000 one addGlass gives 2250, three
\* more (four in all) bring the total to MAX_INTAKE = 3000, passing 2500 and
\* 2750, and every further addGlass leaves it there; each of these commands
\* moves the total by one such step.
C14_ScenarioBThreeMore ==
    /\ []((pc = "done" /\ intake = DAILY_GOAL)
              => /\ Updaters(Glasses(1), intake) = DAILY_GOAL + GLASS_SIZE
                 /\ Updaters(Glasses(3), intake) = MAX_INTAKE - GLASS_SIZE
                 /\ \A n \in 4..(4 + MaxFurther) :
                        Updaters(Glasses(n), intake) = MAX_INTAKE)
    /\ [][(DAILY_GOAL <= intake /\ intake <= MAX_INTAKE /\ AddGlass)
              => intake' = Updaters(Glasses(1), intake)]_vars

C14_Witness ==
    /\ pc = "done"
    /\ goalReached
    /\ store.intake = toString(MAX_INTAKE - GLASS_SIZE)
    /\ intake = MAX_INTAKE
    /\ inflight = {toString(MAX_INTAKE)}

\* C15: a rejected setItem is caught: the step changes nothing in memory and
\* the app keeps running; and once a save has failed, a save that succeeds
\* and leaves no other save in flight leaves the stored intake equal to the
\* decimal string of the in-memory total.
C15_NextSaveReconciles ==
    /\ [][SetItemReject => UNCHANGED <<pc, mem, store>>]_vars
    /\ [][(saveFailed /\ pc = "done" /\ store'.intake # store.intake
               /\ inflight' = {})
              => store'.intake = toString(intake')]_vars

\* C16: no storage error at startup is fatal: a getItem or multiSet that is
\* rejected ends the load at once with the loading screen gone,
\* initialization marked complete, total 0 and latch false; in the state
\* that follows addGlass can be handled, and it takes the total to
\* GLASS_SIZE with the app still running.
C16_NoStorageErrorFatal ==
    /\ [][(Loading /\ (GetDateReject \/ MultiSetReject \/ GetIntakeReject))
              => (pc' = "done" /\ ~isLoading' /\ isInitialized'
                  /\ intake' = 0 /\ ~goalReached')]_vars
    /\ [](loadResult = "failed" => ENABLED AddGlass)
    /\ [][(loadResult = "failed" /\ AddGlass)
              => (intake' = GLASS_SIZE /\ pc' = "done")]_vars

C16_Witness ==
    /\ loadResult = "failed"
    /\ store = [lastReset |-> toDateString(now), intake |-> toString(DAILY_GOAL)]
    /\ pc = "done"
    /\ isInitialized
    /\ ~isLoading
    /\ intake = 0
    /\ ~goalReached

\* C17: the new-day decision is a comparison by value of the stored date with
\* the identifier of the clock's calendar day: the identifier is the same for
\* two clock readings exactly when they are of the same day; a load takes the
\* same-day branch exactly when the stored date equals its identifier (an
\* absent date never does) and the reset branch otherwise; and the reset
\* stores that identifier and ends the load, so that after a jump of several
\* days one load resets once.
C17_NewDayByEquality ==
    /\ [](\A t1, t2 \in 0..(Midnight(MaxSetDay + 1) - 1) :
              (toDateString(t1) = toDateString(t2)) <=> (DayOf(t1) = DayOf(t2)))
    /\ [][(pc = "off" /\ pc' = "getDate") => today' = toDateString(now)]_vars
    /\ [][(pc = "getDate" /\ pc' \notin {"getDate", "off", "done"})
              => /\ store.lastReset = today => pc' = "getIntake"
                 /\ store.lastReset # today => pc' = "multiSet"]_vars
    /\ [][(pc = "multiSet" /\ store' # store)
              => (store'.lastReset = today /\ pc' = "done")]_vars
    /\ [][(pc = "getIntake" /\ pc' \notin {"getIntake", "off"})
              => (store' = store /\ pc' = "done")]_vars

C17_Witness ==
    /\ pc = "multiSet"
    /\ savedDate = toDateString(Midnight(0))
    /\ today = toDateString(now)
    /\ DayOf(now) = MaxSetDay

\* C18: a same-day load that reads the stored intake ends with the total at
\* the stored integer when the stored string is the decimal numeral of a
\* non-negative integer, and at 0 when it is absent or anything else
\* (text, a negative number, digits followed by other characters); either
\* way the latch ends equal to (total >= DAILY_GOAL).
C18_InvalidStoredIsZero ==
    [][(pc = "getIntake" /\ loadResult' \in {"restored", "defaults"})
           => LET numeral ==
                      /\ store.intake # null
                      /\ \A i \in 1..Len(store.intake) : IsDigit(store.intake[i])
              IN  /\ numeral => toString(intake') = store.intake
                  /\ ~numeral => intake' = 0
                  /\ goalReached' = (intake' >= DAILY_GOAL)]_vars

\* C19: no update is lost: whatever commands are handled between two renders,
\* one or several, the total after them is the left-to-right fold of the
\* saturating steps over the total before them.
C19_NoLostUpdate ==
    [][\A queue \in Queues :
           (pc = "done" /\ store' = store /\ now' = now /\ Commands(queue))
               => LET total[i \in 0..Len(queue)] ==
                          IF i = 0 THEN intake
                          ELSE IF queue[i] = "addGlass"
                               THEN IF total[i - 1] + GLASS_SIZE <= MAX_INTAKE
                                    THEN total[i - 1] + GLASS_SIZE
                                    ELSE MAX_INTAKE
                               ELSE IF total[i - 1] >= GLASS_SIZE
                                    THEN total[i - 1] - GLASS_SIZE
                                    ELSE 0
                  IN  intake' = total[Len(queue)]]_vars

C19_Witness ==
    /\ pc = "done"
    /\ loadResult = "none"
    /\ store.intake = toString(0)
    /\ intake = 2 * GLASS_SIZE
    /\ inflight = {toString(2 * GLASS_SIZE)}

\* C20: the durable pair stays day-consistent: whenever the stored intake is
\* the save of a total entered today, the stored date is today's identifier.
C20_PairDayConsistent == savedToday => store.lastReset = toDateString(now)

====
